---- MODULE Spec2Model ----
(***************************************************************************)
(* Model of the limitless-dashboard data pipeline.                         *)
(*                                                                         *)
(*   - the Lambda handler of src/lambda/index.js (fetch, statistics,       *)
(*     volume-history.json / points-history.json update, uploads),         *)
(*   - the handler variant documented in src/SETUP.md (points_hist.json),  *)
(*   - the blob store (S3) the runs share.                                 *)
(*                                                                         *)
(* Dates are day numbers: the string "YYYY-MM-DD" of day d is modelled by  *)
(* d, an instant by a tick count, TicksPerDay ticks to the day.            *)
(***************************************************************************)
EXTENDS Integers, Sequences, FiniteSets, Bags, TLC

\* ------------------------------------------------------------------ bounds
MaxTime == 2
TicksPerDay == 2
MaxRuns == 2
MaxFailures == 1
MaxSmallLen == 2
MaxSmallDate == 2
CapSlack == 1
MaxBatch == 2
DaysPerYear == 2
DaysPerWeek == 2
MaxApiBatch == 2
MaxAuthRuns == 2
MaxApiFaults == 2
MaxElapses == 2

\* ------------------------------------------------------- program constants
\* history = history.slice(0, 90)
HISTORY_CAP == 90

Procs == {"A", "B"}

Min(a, b) == IF a < b THEN a ELSE b

\* ------------------------------------------------------------ date helpers
\* new Date().toISOString().split('T')[0]: the UTC calendar day of an instant
ISODate(t) == t \div TicksPerDay

\* new Date(entry.date): a "YYYY-MM-DD" string parses to UTC midnight of the day
DateValue(d) == d * TicksPerDay

\* ------------------------------------------------------------ array helpers
\* Array.prototype.findIndex(entry => entry.date === today); 0 stands for -1
NeverFoundMutant(history, today) == 0
findIndex(history, today) ==
    IF \E i \in 1..Len(history) : history[i].date = today
    THEN CHOOSE i \in 1..Len(history) :
            /\ history[i].date = today
            /\ \A j \in 1..(i - 1) : history[j].date # today
    ELSE 0

\* Array.prototype.slice(0, n)
SliceOldestMutant(history, n) ==
    SubSeq(history, Len(history) - Min(n, Len(history)) + 1, Len(history))
slice(history, n) == SubSeq(history, 1, Min(n, Len(history)))

\* (a, b) => new Date(b.date) - new Date(a.date)            (newest first)
NewestLastMutant(a, b) == DateValue(a.date) - DateValue(b.date)
compareNewestFirst(a, b) == DateValue(b.date) - DateValue(a.date)

\* (a, b) => new Date(a.date).getTime() - new Date(b.date).getTime()
compareOldestFirst(a, b) == DateValue(a.date) - DateValue(b.date)

Compare(dir, a, b) ==
    IF dir = "desc" THEN compareNewestFirst(a, b) ELSE compareOldestFirst(a, b)

\* Array.prototype.sort(compare) is stable: an element comes after those
\* that compare less and after its equals that stood before it. (SubSeq
\* makes TLC tabulate rank once.)
sort(dir, history) ==
    LET n == Len(history)
        rank == SubSeq([i \in 1..n |->
                    Cardinality({j \in 1..n :
                        \/ Compare(dir, history[j], history[i]) < 0
                        \/ /\ Compare(dir, history[j], history[i]) = 0
                           /\ j <= i})], 1, n)
    IN [k \in 1..n |-> history[CHOOSE i \in 1..n : rank[i] = k]]

\* --------------------------------------------------------------- payloads
\* A fetch helper that failed returns null (fetchPoints, fetchTradedVolume).
NullPayload == [isNull |-> TRUE]

\* GET /portfolio/{wallet}/traded-volume
VolumePayloads == {[isNull |-> FALSE, data |-> 7]}

\* GET /portfolio/points
PointsPayloads ==
    {[isNull |-> FALSE, season1 |-> 3, season2 |-> 4, currentMonth |-> 5]}

\* GET /portfolio/trades: the blockTimestamps of the trades, in the API's order
TradeResponses == {<<1, 2>>}

\* GET /portfolio/positions: the number of positions
PositionResponses == {1}

\* ---------------------------------------------------------- history update
\* parseFloat(volumeData?.data || volumeData?.totalVolume || volumeData?.volume || 0)
currentVolume(volumeData) == IF volumeData.isNull THEN 0 ELSE volumeData.data

\* parseFloat(pointsData?.season1 || 0), ...season2, ...currentMonth
pointsOf(pointsData) ==
    IF pointsData.isNull
    THEN [season1 |-> 0, season2 |-> 0, currentMonth |-> 0]
    ELSE [season1 |-> pointsData.season1, season2 |-> pointsData.season2,
          currentMonth |-> pointsData.currentMonth]

\* updateDailyVolume, from the findIndex to the slice: existing is the parsed
\* array, today the date taken on entry, ts the instant of the update.
RestartSeriesMutant(existing, today, volumeData, ts) ==
    <<[date |-> today, volume |-> currentVolume(volumeData), lastUpdated |-> ts]>>
mergeVolume(existing, today, volumeData, ts) ==
    LET todayIndex == findIndex(existing, today)
        merged ==
            IF todayIndex > 0
            THEN [existing EXCEPT ![todayIndex].volume = currentVolume(volumeData),
                                  ![todayIndex].lastUpdated = ts]
            ELSE Append(existing, [date |-> today,
                                   volume |-> currentVolume(volumeData),
                                   lastUpdated |-> ts])
    IN slice(sort("desc", merged), HISTORY_CAP)

\* updateDailyPoints, from the findIndex to the slice
AccumulatePointsMutant(existing, today, pointsData, ts) ==
    LET todayIndex == findIndex(existing, today)
        pts == pointsOf(pointsData)
        merged ==
            IF todayIndex > 0
            THEN [existing EXCEPT ![todayIndex].season1 = @ + pts.season1,
                                  ![todayIndex].season2 = @ + pts.season2,
                                  ![todayIndex].currentMonth = @ + pts.currentMonth,
                                  ![todayIndex].lastUpdated = ts]
            ELSE Append(existing, [date |-> today,
                                   season1 |-> pts.season1,
                                   season2 |-> pts.season2,
                                   currentMonth |-> pts.currentMonth,
                                   lastUpdated |-> ts])
    IN slice(sort("desc", merged), HISTORY_CAP)
mergePoints(existing, today, pointsData, ts) ==
    LET todayIndex == findIndex(existing, today)
        pts == pointsOf(pointsData)
        merged ==
            IF todayIndex > 0
            THEN [existing EXCEPT ![todayIndex].season1 = pts.season1,
                                  ![todayIndex].season2 = pts.season2,
                                  ![todayIndex].currentMonth = pts.currentMonth,
                                  ![todayIndex].lastUpdated = ts]
            ELSE Append(existing, [date |-> today,
                                   season1 |-> pts.season1,
                                   season2 |-> pts.season2,
                                   currentMonth |-> pts.currentMonth,
                                   lastUpdated |-> ts])
    IN slice(sort("desc", merged), HISTORY_CAP)

\* updatePointsHistory (SETUP.md variant): the entry is replaced whole, the
\* series sorted ascending and not capped; volume is null in that handler, so
\* totalVolume = volume?.total || volume?.data?.total || volume || 0 is 0.
mergePointsHist(existing, pointsData, ts) ==
    LET currentDate == ISODate(ts)
        existingEntryIndex == findIndex(existing, currentDate)
        pts == pointsOf(pointsData)
        newEntry == [date |-> currentDate,
                     season1 |-> pts.season1,
                     season2 |-> pts.season2,
                     currentMonth |-> pts.currentMonth,
                     volume |-> 0,
                     lastUpdated |-> ts]
        merged ==
            IF existingEntryIndex > 0
            THEN [existing EXCEPT ![existingEntryIndex] = newEntry]
            ELSE Append(existing, newEntry)
    IN sort("asc", merged)

\* ------------------------------------------------------------------ state
VARIABLES
    now,            \* the clock (Date.now()), in ticks
    store,          \* the bucket: key -> blob
    pc,             \* per container: where its handler run stands
    variant,        \* per container: which handler the run executes
    positions,      \* handler locals
    trades,
    points,
    volume,
    today,          \* `today` of updateDailyVolume / updateDailyPoints
    history,        \* `history` of the update function in progress
    volumeHistory,  \* const volumeHistory = await updateDailyVolume(volume)
    pointsHistory,  \* const pointsHistory / updatedPointsHistory
    pending,        \* uploads of the Promise.all not yet settled
    written,        \* keys the run has put so far
    failed,         \* calls of the run that failed: fetch helpers, steps, puts
    faultsLeft,     \* calls (API, S3) that may still fail
    statusCode,     \* 0 while none or running, else the run's result
    lastWriter,     \* key -> container whose put landed last
    runs,           \* handler invocations so far
    mIn, mKind, mToday, mData, mTs, mTs2, mOut, mAgain, mStage,
                    \* the history merge applied to a given series
    dLines,         \* dashboard: the raw trades of trades.jsonl, line by line
    dStatsBlob,     \* dashboard: the stats.json blob it finds
    dTrades,        \* App: trades (setTrades(tradesData))
    dCalc,          \* fetchStats: stats = calculateStatsFromTrades(trades)
    dStats,         \* App: stats (setStats(statsData))
    dDaily,         \* DailyBreakdown: dailyStats
    dStage,         \* where the dashboard stands
    wTrades,        \* SETUP.md handler: trades, as the API returned them
    wStats,         \* const stats = calculateStats(trades, points, volume)
    wWeekly,        \* const weeklySummary = calculateWeeklySummary(trades)
    wStage,         \* where that computation stands
    PRIVATE_KEY,    \* process.env.WALLET_PRIVATE_KEY: usable or not
    cachedSessionCookie,    \* module level: 0 is null, n the n-th cookie
    sessionExpiresAt,       \* module level, in ms
    walletAddress,          \* module level: "null" or the wallet's address
    aPc,            \* the fetch the handler run is about to make
    aRuns,          \* invocations so far
    aFaults,        \* API calls (login, GET) that may still fail
    aElapsed,       \* clock jumps so far
    aAuths,         \* cookies the API has handed out so far
    aEnsure,        \* the last call of ensureValidSession
    aCall           \* the last call of makeAuthenticatedRequest

handlerVars == <<pc, variant, positions, trades, points, volume, today, history,
                 volumeHistory, pointsHistory, pending, written, failed,
                 faultsLeft, statusCode, runs>>
mergeVars == <<mIn, mKind, mToday, mData, mTs, mTs2, mOut, mAgain, mStage>>
dashVars == <<dLines, dStatsBlob, dTrades, dCalc, dStats, dDaily, dStage>>
weeklyVars == <<wTrades, wStats, wWeekly, wStage>>
authVars == <<PRIVATE_KEY, cachedSessionCookie, sessionExpiresAt, walletAddress,
              aPc, aRuns, aFaults, aElapsed, aAuths, aEnsure, aCall>>
vars == <<now, store, lastWriter, handlerVars, mergeVars, dashVars, weeklyVars,
          authVars>>

VolumeKey == "volume-history.json"
PointsKey == "points-history.json"
PointsHistKey == "points_hist.json"
HistoryKeys == {VolumeKey, PointsKey, PointsHistKey}
PrimaryKeys == {"trades.jsonl", "stats.json", "state.json"}
Keys == HistoryKeys \cup PrimaryKeys \cup {"weekly_summary.json"}

\* A blob: no such key, a body JSON.parse rejects, or a JSON body.
Missing == [kind |-> "missing"]
Corrupt == [kind |-> "corrupt"]
Json(body) == [kind |-> "json", body |-> body]

\* ------------------------------------------------------------- blob store
\* getFromS3 answered: null on NoSuchKey, the content otherwise; then
\* if (existingData) { try { history = JSON.parse(existingData) } catch { history = [] } }
\* Neither a missing key nor a parse error is thrown on.
ThrowOnUnreadableMutant(blob) ==
    IF blob.kind = "json" THEN [threw |-> FALSE, history |-> blob.body]
    ELSE [threw |-> TRUE, history |-> <<>>]
readHistory(blob) ==
    IF blob.kind = "json" THEN [threw |-> FALSE, history |-> blob.body]
    ELSE [threw |-> FALSE, history |-> <<>>]

\* uploadToS3: PutObject replaces the object under the key
OverwriteOnlyMissingMutant(bucket, key, content) ==
    IF bucket[key].kind = "json" THEN bucket ELSE [bucket EXCEPT ![key] = Json(content)]
uploadToS3(bucket, key, content) == [bucket EXCEPT ![key] = Json(content)]

\* formatTradesAsJsonl: one line per trade, in the order of the array
formatTradesAsJsonl(ts) == [i \in 1..Len(ts) |-> [line |-> ts[i]]]

\* tradesRaw.sort((a, b) => parseInt(b.blockTimestamp) - parseInt(a.blockTimestamp))
RECURSIVE sortTradesDesc(_)
sortTradesDesc(ts) ==
    IF ts = <<>> THEN <<>>
    ELSE LET m == CHOOSE i \in 1..Len(ts) :
                    /\ \A j \in 1..Len(ts) : ts[j] <= ts[i]
                    /\ \A j \in 1..(i - 1) : ts[j] < ts[i]
         IN <<ts[m]>> \o sortTradesDesc(SubSeq(ts, 1, m - 1) \o SubSeq(ts, m + 1, Len(ts)))

\* Amounts arrive in the collateral's smallest unit, UnitsPerCent of them to
\* the cent; a decimal string "d.cc" is modelled by its number of cents, a
\* JS number by its number of units.
\* Math.pow(10, decimals): the units of one USDC are 100 * UnitsPerCent
UnitsPerCent == 3

\* An optional field that is absent
Undefined == [tag |-> "undefined"]

\* A decimal string of a finite number, and what toFixed makes of NaN and of
\* Infinity
Str(v) == [tag |-> "num", v |-> v]
NaNStr == [tag |-> "NaN"]
InfinityStr == [tag |-> "Infinity"]

\* Number.prototype.toFixed: to the nearest, halves away from zero
RoundDiv(a, b) ==
    IF a >= 0 THEN (2 * a + b) \div (2 * b)
    ELSE 0 - ((2 * (0 - a) + b) \div (2 * b))

Abs(x) == IF x < 0 THEN 0 - x ELSE x

Max(a, b) == IF a > b THEN a ELSE b

RECURSIVE SumSeq(_)
SumSeq(xs) == IF xs = <<>> THEN 0 ELSE Head(xs) + SumSeq(Tail(xs))

\* parseFloat(trade.pnlUSDC || '0'), in cents
pnlOf(trade) == IF trade.pnlUSDC.tag = "num" THEN trade.pnlUSDC.v ELSE 0

\* market.winningOutcomeIndex in an answer of the API: absent, null or an
\* outcome index
Null == [tag |-> "null"]
Index(n) == [tag |-> "index", v |-> n]

\* A trade as GET /portfolio/trades returns it: blockTimestamp, market,
\* strategy, amounts; no type, status, pnlUSDC, pnl, profit or result. The
\* trades of the handler runs are those of an open market.
apiTrade(blockTimestamp) ==
    [blockTimestamp |-> blockTimestamp, type |-> "undefined",
     pnlUSDC |-> Undefined, result |-> "undefined",
     closed |-> "false", winningOutcomeIndex |-> Null, outcomeIndex |-> 0,
     outcomeTokenNetCost |-> 4, outcomeTokenAmount |-> 0]

apiTrades(ts) == [i \in 1..Len(ts) |-> apiTrade(ts[i])]

\* winRate of calculateStats: '0.00%', or toFixed(2) + '%'
percent2(profitable, completed) ==
    [fmt |-> "X.XX%",
     v |-> IF completed > 0 THEN RoundDiv(profitable * 10000, completed) ELSE 0]

\* calculateStats(trades, points, volume): the statistics object of the run
\* (amounts in cents; the uptime fields are left out)
calculateStats(ts, pointsData, volumeData) ==
    LET n == Len(ts)
        completedAt == {i \in 1..n :
                          ts[i].type \in {"SELL_PROFIT", "SELL_STOP_LOSS", "REDEEM"}}
        profitAt == {i \in completedAt : pnlOf(ts[i]) > 0 \/ ts[i].result = "WON"}
        lossAt == {i \in completedAt : pnlOf(ts[i]) < 0 \/ ts[i].result = "LOST"}
        totalProfit ==
            SumSeq([i \in 1..n |-> IF i \in profitAt THEN Abs(pnlOf(ts[i])) ELSE 0])
        totalLoss ==
            SumSeq([i \in 1..n |-> IF i \in lossAt THEN Abs(pnlOf(ts[i])) ELSE 0])
    IN [totalTrades |-> Cardinality(completedAt),
        profitableTrades |-> Cardinality(profitAt),
        losingTrades |-> Cardinality(lossAt),
        totalProfitUSDC |-> totalProfit,
        totalLossUSDC |-> totalLoss,
        netProfitUSDC |-> totalProfit - totalLoss,
        winRate |-> percent2(Cardinality(profitAt), Cardinality(completedAt)),
        points |-> pointsData,
        tradedVolume |-> volumeData]

\* formatState(positions): {} without positions, else wallet1's holdings
formatState(n) == [holdings |-> n]

\* SETUP.md handler. const wonTrade = trade.market.winningOutcomeIndex ===
\* trade.outcomeIndex
wonTrade(trade) ==
    /\ trade.winningOutcomeIndex.tag = "index"
    /\ trade.winningOutcomeIndex.v = trade.outcomeIndex

\* cost = parseFloat(outcomeTokenNetCost) / Math.pow(10, decimals) and
\* outcomeAmount = parseFloat(outcomeTokenAmount), which is not divided:
\* both in units, 100 * UnitsPerCent of them to the USDC
costOf(trade) == trade.outcomeTokenNetCost
outcomeAmountOf(trade) == trade.outcomeTokenAmount * 100 * UnitsPerCent

\* pnl = wonTrade ? outcomeAmount - cost : -cost
pnlOfMarket(trade) ==
    IF wonTrade(trade) THEN outcomeAmountOf(trade) - costOf(trade)
    ELSE 0 - costOf(trade)

\* completedTrades of calculateStats (SETUP.md): market.closed === true and
\* winningOutcomeIndex neither undefined nor null
isCompleted(trade) ==
    trade.closed = "true" /\ trade.winningOutcomeIndex.tag = "index"

\* calculateStats of the SETUP.md handler (raw API format); amounts in cents
calculateStatsSetup(ts, pointsData, volumeData) ==
    LET n == Len(ts)
        completedAt == {i \in 1..n : isCompleted(ts[i])}
        profitAt == {i \in completedAt : pnlOfMarket(ts[i]) > 0}
        lossAt == {i \in completedAt : pnlOfMarket(ts[i]) < 0}
        totalProfit ==
            SumSeq([i \in 1..n |-> IF i \in profitAt THEN pnlOfMarket(ts[i]) ELSE 0])
        totalLoss ==
            SumSeq([i \in 1..n |-> IF i \in lossAt THEN Abs(pnlOfMarket(ts[i])) ELSE 0])
        totalVolumeUSDC ==
            SumSeq([i \in 1..n |-> IF i \in completedAt THEN costOf(ts[i]) ELSE 0])
    IN [totalTrades |-> Cardinality(completedAt),
        profitableTrades |-> Cardinality(profitAt),
        losingTrades |-> Cardinality(lossAt),
        totalProfitUSDC |-> RoundDiv(totalProfit, UnitsPerCent),
        totalLossUSDC |-> RoundDiv(totalLoss, UnitsPerCent),
        netProfitUSDC |-> RoundDiv(totalProfit - totalLoss, UnitsPerCent),
        winRate |-> percent2(Cardinality(profitAt), Cardinality(completedAt)),
        points |-> pointsData,
        tradedVolume |-> IF n = 0 \/ ~volumeData.isNull THEN volumeData
                         ELSE [isNull |-> FALSE, total |-> totalVolumeUSDC]]

\* The Monday of the week of a trade: the day number of the week's first day
weekStartOf(blockTimestamp) ==
    ((blockTimestamp \div TicksPerDay) \div DaysPerWeek) * DaysPerWeek

\* The trades calculateWeeklySummary does not skip:
\* !trade.market?.closed || trade.market?.winningOutcomeIndex === undefined
isInWeek(trade) ==
    trade.closed = "true" /\ trade.winningOutcomeIndex.tag # "undefined"

\* calculateWeeklySummary(trades): one rollup per week that has such a
\* trade, newest week first; amounts in units
calculateWeeklySummary(ts) ==
    LET n == Len(ts)
        inWeek == {i \in 1..n : isInWeek(ts[i])}
        weekKeys == {weekStartOf(ts[i].blockTimestamp) : i \in inWeek}
        at(w) == {i \in inWeek : weekStartOf(ts[i].blockTimestamp) = w}
        sum(w, f(_)) == SumSeq([i \in 1..n |-> IF i \in at(w) THEN f(i) ELSE 0])
        cost(i) == costOf(ts[i])
        wonPnl(i) == IF wonTrade(ts[i]) THEN outcomeAmountOf(ts[i]) - cost(i) ELSE 0
        lostCost(i) == IF wonTrade(ts[i]) THEN 0 ELSE cost(i)
        net(i) == wonPnl(i) - lostCost(i)
        week(w) == [weekStart |-> w,
                    trades |-> Cardinality(at(w)),
                    wins |-> Cardinality({i \in at(w) : wonTrade(ts[i])}),
                    losses |-> Cardinality({i \in at(w) : ~wonTrade(ts[i])}),
                    profitUSDC |-> sum(w, wonPnl),
                    lossUSDC |-> sum(w, lostCost),
                    netProfitUSDC |-> sum(w, net),
                    volumeUSDC |-> sum(w, cost)]
        rank(w) == Cardinality({v \in weekKeys : v >= w})
    IN [k \in 1..Cardinality(weekKeys) |-> week(CHOOSE w \in weekKeys : rank(w) = k)]

\* The body the run uploads under a key of its Promise.all
contentOf(p, key) ==
    CASE key = "trades.jsonl" -> formatTradesAsJsonl(trades[p])
      [] key = "stats.json" ->
            IF variant[p] = "setup"
            THEN calculateStatsSetup(apiTrades(trades[p]), points[p], volume[p])
            ELSE calculateStats(apiTrades(trades[p]), points[p], volume[p])
      [] key = "state.json" -> formatState(positions[p])
      [] key = PointsHistKey -> pointsHistory[p]
      [] OTHER -> calculateWeeklySummary(apiTrades(trades[p]))

\* ------------------------------------------------------------ the handler
Variants == {"index", "setup"}
Fetchers == {"positions", "trades", "points", "volume"}

MergeIdle ==
    /\ mIn = <<>> /\ mKind = "none" /\ mToday = 0 /\ mData = NullPayload
    /\ mTs = 0 /\ mTs2 = 0 /\ mOut = <<>> /\ mAgain = <<>> /\ mStage = "off"

DashIdle ==
    /\ dLines = <<>> /\ dStatsBlob = Missing /\ dTrades = <<>> /\ dCalc = <<>>
    /\ dStats = <<>> /\ dDaily = <<>> /\ dStage = "off"

WeeklyIdle == wTrades = <<>> /\ wStats = <<>> /\ wWeekly = <<>> /\ wStage = "off"

NoEnsure == [called |-> FALSE]
NoCall == [called |-> FALSE]

AuthIdle ==
    /\ PRIVATE_KEY = "valid"
    /\ cachedSessionCookie = 0
    /\ sessionExpiresAt = 0
    /\ walletAddress = "null"
    /\ aPc = "off"
    /\ aRuns = 0
    /\ aFaults = 0
    /\ aElapsed = 0
    /\ aAuths = 0
    /\ aEnsure = NoEnsure
    /\ aCall = NoCall

\* The history blobs are missing, unreadable or empty; no other output yet.
InitStore ==
    /\ now = 0
    /\ \E blob \in {Missing, Corrupt, Json(<<>>)} :
          store = [k \in Keys |-> IF k \in HistoryKeys THEN blob ELSE Missing]
    /\ lastWriter = [k \in Keys |-> "none"]

InitHandler ==
    /\ pc = [p \in Procs |-> "idle"]
    /\ variant = [p \in Procs |-> "index"]
    /\ positions = [p \in Procs |-> 0]
    /\ trades = [p \in Procs |-> <<>>]
    /\ points = [p \in Procs |-> NullPayload]
    /\ volume = [p \in Procs |-> NullPayload]
    /\ today = [p \in Procs |-> 0]
    /\ history = [p \in Procs |-> <<>>]
    /\ volumeHistory = [p \in Procs |-> <<>>]
    /\ pointsHistory = [p \in Procs |-> <<>>]
    /\ pending = [p \in Procs |-> {}]
    /\ written = [p \in Procs |-> {}]
    /\ failed = [p \in Procs |-> {}]
    /\ statusCode = [p \in Procs |-> 0]
    /\ runs = 0

Init ==
    /\ InitStore
    /\ InitHandler
    /\ faultsLeft = MaxFailures
    /\ MergeIdle
    /\ DashIdle
    /\ WeeklyIdle
    /\ AuthIdle

\* The clock advances between any two steps.
Tick ==
    /\ now < MaxTime
    /\ now' = now + 1
    /\ UNCHANGED <<store, lastWriter, handlerVars, mergeVars, dashVars, weeklyVars, authVars>>

\* return { statusCode: code, ... }: the run ends, its locals die.
Return(p, code) ==
    /\ pc' = [pc EXCEPT ![p] = "idle"]
    /\ statusCode' = [statusCode EXCEPT ![p] = code]
    /\ history' = [history EXCEPT ![p] = <<>>]
    /\ pending' = [pending EXCEPT ![p] = {}]
    /\ today' = [today EXCEPT ![p] = 0]
    /\ positions' = [positions EXCEPT ![p] = 0]
    /\ trades' = [trades EXCEPT ![p] = <<>>]
    /\ points' = [points EXCEPT ![p] = NullPayload]
    /\ volume' = [volume EXCEPT ![p] = NullPayload]

\* catch (error) { return { statusCode: 500 } }: the step in progress threw
Fail(p) ==
    /\ Return(p, 500)
    /\ failed' = [failed EXCEPT ![p] = @ \cup {pc[p]}]
    /\ UNCHANGED <<now, store, lastWriter, variant, volumeHistory, pointsHistory,
                   written, runs, mergeVars, dashVars, weeklyVars, authVars>>

\* An awaited blob-store call rejects (for getFromS3: other than NoSuchKey).
Throw(p) ==
    /\ faultsLeft > 0
    /\ faultsLeft' = faultsLeft - 1
    /\ Fail(p)

\* exports.handler up to the first blob-store call: ensureValidSession, the
\* four fetch helpers (each catches its error: [] or null), the trade sort of
\* the SETUP.md variant, calculateStats and formatState.
Invoke(p) ==
    /\ pc[p] = "idle"
    /\ runs < MaxRuns
    /\ p = "B" => pc["A"] # "idle"     \* an idle environment is reused
    /\ runs' = runs + 1
    /\ \E v \in Variants, sessionOk \in BOOLEAN, fl \in SUBSET Fetchers,
          pos \in PositionResponses, tr \in TradeResponses,
          pt \in PointsPayloads, vo \in VolumePayloads :
        /\ ~sessionOk => fl = {}
        /\ faultsLeft' = faultsLeft - Cardinality(fl) - (IF sessionOk THEN 0 ELSE 1)
        /\ faultsLeft' >= 0
        /\ v = "setup" => "volume" \notin fl
        /\ LET fetched == IF "trades" \in fl THEN <<>> ELSE tr
           IN trades' = [trades EXCEPT ![p] =
                            IF ~sessionOk THEN <<>>
                            ELSE IF v = "setup" THEN sortTradesDesc(fetched)
                            ELSE fetched]
        /\ positions' = [positions EXCEPT ![p] =
                            IF sessionOk /\ "positions" \notin fl THEN pos ELSE 0]
        /\ variant' = [variant EXCEPT ![p] = v]
        /\ written' = [written EXCEPT ![p] = {}]
        /\ volumeHistory' = [volumeHistory EXCEPT ![p] = <<>>]
        /\ pointsHistory' = [pointsHistory EXCEPT ![p] = <<>>]
        /\ history' = [history EXCEPT ![p] = <<>>]
        /\ pending' = [pending EXCEPT ![p] = {}]
        /\ IF sessionOk
           THEN /\ failed' = [failed EXCEPT ![p] = fl]
                /\ points' = [points EXCEPT ![p] =
                                IF "points" \in fl THEN NullPayload ELSE pt]
                /\ volume' = [volume EXCEPT ![p] =
                                IF v = "setup" \/ "volume" \in fl
                                THEN NullPayload ELSE vo]
                /\ today' = [today EXCEPT ![p] =
                                IF v = "index" THEN ISODate(now) ELSE 0]
                /\ pc' = [pc EXCEPT ![p] =
                                IF v = "index" THEN "volGet" ELSE "histGet"]
                /\ statusCode' = [statusCode EXCEPT ![p] = 0]
           ELSE /\ failed' = [failed EXCEPT ![p] = {"session"}]
                /\ points' = [points EXCEPT ![p] = NullPayload]
                /\ volume' = [volume EXCEPT ![p] = NullPayload]
                /\ today' = [today EXCEPT ![p] = 0]
                /\ pc' = [pc EXCEPT ![p] = "idle"]
                /\ statusCode' = [statusCode EXCEPT ![p] = 500]
    /\ UNCHANGED <<now, store, lastWriter, mergeVars, dashVars, weeklyVars, authVars>>

\* updateDailyVolume resumes from `await getFromS3('volume-history.json')`:
\* an S3 error other than NoSuchKey is rethrown; otherwise the series is
\* parsed, merged, sorted and cut, and the put is issued.
VolGet(p) ==
    /\ pc[p] = "volGet"
    /\ \/ Throw(p)
       \/ /\ readHistory(store[VolumeKey]).threw
          /\ Fail(p)
          /\ UNCHANGED faultsLeft
       \/ /\ ~readHistory(store[VolumeKey]).threw
          /\ history' = [history EXCEPT ![p] =
                mergeVolume(readHistory(store[VolumeKey]).history, today[p],
                            volume[p], now)]
          /\ pc' = [pc EXCEPT ![p] = "volPut"]
          /\ UNCHANGED <<now, store, lastWriter, variant, positions, trades,
                         points, volume, today, volumeHistory, pointsHistory,
                         pending, written, failed, faultsLeft, statusCode, runs,
                         mergeVars, dashVars, weeklyVars, authVars>>

\* updateDailyVolume resumes from `await uploadToS3('volume-history.json', ...)`
\* and returns; the handler enters updateDailyPoints, which takes `today`.
VolPut(p) ==
    /\ pc[p] = "volPut"
    /\ \/ Throw(p)
       \/ /\ store' = uploadToS3(store, VolumeKey, history[p])
          /\ lastWriter' = [lastWriter EXCEPT ![VolumeKey] = p]
          /\ written' = [written EXCEPT ![p] = @ \cup {VolumeKey}]
          /\ volumeHistory' = [volumeHistory EXCEPT ![p] = history[p]]
          /\ today' = [today EXCEPT ![p] = ISODate(now)]
          /\ pc' = [pc EXCEPT ![p] = "ptsGet"]
          /\ UNCHANGED <<now, variant, positions, trades, points, volume,
                         history, pointsHistory, pending, failed, faultsLeft,
                         statusCode, runs, mergeVars, dashVars, weeklyVars, authVars>>

\* updateDailyPoints resumes from `await getFromS3('points-history.json')`
PtsGet(p) ==
    /\ pc[p] = "ptsGet"
    /\ \/ Throw(p)
       \/ /\ readHistory(store[PointsKey]).threw
          /\ Fail(p)
          /\ UNCHANGED faultsLeft
       \/ /\ ~readHistory(store[PointsKey]).threw
          /\ history' = [history EXCEPT ![p] =
                mergePoints(readHistory(store[PointsKey]).history, today[p],
                            points[p], now)]
          /\ pc' = [pc EXCEPT ![p] = "ptsPut"]
          /\ UNCHANGED <<now, store, lastWriter, variant, positions, trades,
                         points, volume, today, volumeHistory, pointsHistory,
                         pending, written, failed, faultsLeft, statusCode, runs,
                         mergeVars, dashVars, weeklyVars, authVars>>

\* updateDailyPoints resumes from its put and returns; the handler issues the
\* three uploads of its Promise.all.
PtsPut(p) ==
    /\ pc[p] = "ptsPut"
    /\ \/ Throw(p)
       \/ /\ store' = uploadToS3(store, PointsKey, history[p])
          /\ lastWriter' = [lastWriter EXCEPT ![PointsKey] = p]
          /\ written' = [written EXCEPT ![p] = @ \cup {PointsKey}]
          /\ pointsHistory' = [pointsHistory EXCEPT ![p] = history[p]]
          /\ pending' = [pending EXCEPT ![p] = PrimaryKeys]
          /\ pc' = [pc EXCEPT ![p] = "uploading"]
          /\ UNCHANGED <<now, variant, positions, trades, points, volume, today,
                         history, volumeHistory, failed, faultsLeft, statusCode,
                         runs, mergeVars, dashVars, weeklyVars, authVars>>

\* SETUP.md variant: updatePointsHistory resumes from `await fetchPointsHistory()`,
\* which turns every error (no such key, S3 error, parse error) into [];
\* the merged series is returned and the five uploads are issued.
HistGet(p) ==
    /\ pc[p] = "histGet"
    /\ \E readOk \in BOOLEAN :
        LET r == readHistory(store[PointsHistKey])
            existing == IF readOk /\ ~r.threw THEN r.history ELSE <<>>
        IN /\ faultsLeft' = IF readOk THEN faultsLeft ELSE faultsLeft - 1
           /\ faultsLeft' >= 0
           /\ failed' = [failed EXCEPT ![p] = IF readOk THEN @ ELSE @ \cup {"histGet"}]
           /\ pointsHistory' = [pointsHistory EXCEPT ![p] =
                                    mergePointsHist(existing, points[p], now)]
    /\ pending' = [pending EXCEPT ![p] =
                      PrimaryKeys \cup {PointsHistKey, "weekly_summary.json"}]
    /\ pc' = [pc EXCEPT ![p] = "uploading"]
    /\ UNCHANGED <<now, store, lastWriter, variant, positions, trades, points,
                   volume, today, history, volumeHistory, written, statusCode,
                   runs, mergeVars, dashVars, weeklyVars, authVars>>

\* The handler resumes from `await Promise.all([uploadToS3(...), ...])`: the
\* puts were issued together; those S3 accepts have landed, and the
\* Promise.all is fulfilled (statusCode 200) when none was rejected, else
\* rejected (statusCode 500).
RECURSIVE uploadAll(_, _, _)
uploadAll(bucket, p, keys) ==
    IF keys = {} THEN bucket
    ELSE LET key == CHOOSE k \in keys : TRUE
         IN uploadAll(uploadToS3(bucket, key, contentOf(p, key)), p, keys \ {key})

Upload(p) ==
    /\ pc[p] = "uploading"
    /\ \E rejected \in SUBSET pending[p] :
        LET landed == pending[p] \ rejected
        IN /\ faultsLeft' = faultsLeft - Cardinality(rejected)
           /\ faultsLeft' >= 0
           /\ store' = uploadAll(store, p, landed)
           /\ lastWriter' = [k \in Keys |-> IF k \in landed THEN p ELSE lastWriter[k]]
           /\ written' = [written EXCEPT ![p] = @ \cup landed]
           /\ failed' = [failed EXCEPT ![p] = @ \cup rejected]
           /\ Return(p, IF rejected = {} THEN 200 ELSE 500)
    /\ UNCHANGED <<now, variant, volumeHistory, pointsHistory, runs, mergeVars, dashVars, weeklyVars, authVars>>

Step(p) ==
    \/ Invoke(p)
    \/ VolGet(p)
    \/ VolPut(p)
    \/ PtsGet(p)
    \/ PtsPut(p)
    \/ HistGet(p)
    \/ Upload(p)

\* One execution environment, runs one after the other; calls may fail.
Next == Tick \/ Step("A")

Spec == Init /\ [][Next]_vars

\* Two execution environments, whose runs may overlap; no call fails.
InitOverlap ==
    /\ InitStore
    /\ InitHandler
    /\ faultsLeft = 0
    /\ MergeIdle
    /\ DashIdle
    /\ WeeklyIdle
    /\ AuthIdle

NextOverlap == Tick \/ \E p \in Procs : Step(p)

SpecOverlap == InitOverlap /\ [][NextOverlap]_vars

\* ------------------------------------------- the history merge on its own
\* The three history updates, applied to a given stored series.
Kinds == {"volume", "points", "hist"}

merge(kind, existing, day, data, ts) ==
    CASE kind = "volume" -> mergeVolume(existing, day, data, ts)
      [] kind = "points" -> mergePoints(existing, day, data, ts)
      [] OTHER -> mergePointsHist(existing, data, ts)

\* A stored entry of day d; id tells the entries of a series apart.
entryOf(kind, d, id) ==
    CASE kind = "volume" ->
            [date |-> d, volume |-> id, lastUpdated |-> DateValue(d)]
      [] kind = "points" ->
            [date |-> d, season1 |-> id, season2 |-> id, currentMonth |-> id,
             lastUpdated |-> DateValue(d)]
      [] OTHER ->
            [date |-> d, season1 |-> id, season2 |-> id, currentMonth |-> id,
             volume |-> 0, lastUpdated |-> DateValue(d)]

\* Short series: any dates in any order, repeats included.
SmallDates == UNION {[1..n -> 0..MaxSmallDate] : n \in 0..MaxSmallLen}
smallSeries(kind, dates) == [i \in 1..Len(dates) |-> entryOf(kind, dates[i], i)]

\* Long series, around the cap: n consecutive days ending at day top, in the
\* order the writer of the kind keeps.
LongToday == HISTORY_CAP + CapSlack + 1
LongLens == {n \in (HISTORY_CAP - CapSlack)..(HISTORY_CAP + CapSlack) : n >= 0}
longSeries(kind, n, top) ==
    [i \in 1..n |->
        IF kind = "hist" THEN entryOf(kind, top - n + i, i)
        ELSE entryOf(kind, top - i + 1, i)]

payloadsOf(kind) ==
    {NullPayload} \cup (IF kind = "volume" THEN VolumePayloads ELSE PointsPayloads)

InitMerge ==
    /\ now = 0
    /\ store = [k \in Keys |-> Missing]
    /\ lastWriter = [k \in Keys |-> "none"]
    /\ InitHandler
    /\ faultsLeft = 0
    /\ mStage = "input"
    /\ mKind \in Kinds
    /\ \/ /\ \E dates \in SmallDates : mIn = smallSeries(mKind, dates)
          /\ mTs \in 0..(DateValue(MaxSmallDate + 1) - 1)
       \/ /\ \E n \in LongLens, top \in {LongToday - 1, LongToday} :
                mIn = longSeries(mKind, n, top)
          /\ mTs \in DateValue(LongToday)..(DateValue(LongToday + 1) - 1)
    \* `today` is taken on entry, the instant after the read: midnight may
    \* pass in between (updatePointsHistory takes both after the read)
    /\ mToday \in {ISODate(mTs)} \cup
                  (IF mKind # "hist" /\ mTs > 0 THEN {ISODate(mTs - 1)} ELSE {})
    /\ mData \in payloadsOf(mKind)
    /\ mTs2 = mTs
    /\ mOut = <<>>
    /\ mAgain = <<>>
    /\ DashIdle
    /\ WeeklyIdle
    /\ AuthIdle

\* One history update of the stored series.
MergeOnce ==
    /\ mStage = "input"
    /\ mOut' = merge(mKind, mIn, mToday, mData, mTs)
    /\ mStage' = "once"
    /\ UNCHANGED <<now, store, lastWriter, handlerVars, mIn, mKind, mToday,
                   mData, mTs, mTs2, mAgain, dashVars, weeklyVars, authVars>>

\* A second update of the result, later the same day, with the same metrics.
MergeAgain ==
    /\ mStage = "once"
    /\ \E ts2 \in mTs..(mTs + TicksPerDay - 1) :
        /\ ISODate(ts2) = ISODate(mTs)
        /\ mTs2' = ts2
        /\ mAgain' = merge(mKind, mOut, mToday, mData, ts2)
    /\ mStage' = "twice"
    /\ UNCHANGED <<now, store, lastWriter, handlerVars, mIn, mKind, mToday,
                   mData, mTs, mOut, dashVars, weeklyVars, authVars>>

NextMerge == MergeOnce \/ MergeAgain

SpecMerge == InitMerge /\ [][NextMerge]_vars

\* ------------------------------------------------- the dashboard: trades
\* new Date(parseInt(raw.blockTimestamp) * 1000)
MsPerSecond == 1000

\* market.winningOutcomeIndex of a market that is not resolved
NoWinner == -1

\* (x / Math.pow(10, decimals)).toFixed(2), and x.toFixed(2) of a number
toFixed2(units) == RoundDiv(units, UnitsPerCent)

\* parseFloat of a decimal string
parseFloat(cents) == cents * UnitsPerCent

\* String.prototype.includes; a strategy label is the sequence of its words
includes(strategy, word) == \E i \in 1..Len(strategy) : strategy[i] = word

\* ((pnl / cost) * 100).toFixed(2), in hundredths of a percent
percentOf(pnl, cost) ==
    IF cost # 0 THEN Str(RoundDiv(pnl * 10000, cost))
    ELSE IF pnl = 0 THEN NaNStr
    ELSE InfinityStr

\* result = pnl >= 0 ? 'WON' : 'LOST'
StrictlyPositiveWinsMutant(pnl) == IF pnl > 0 THEN "WON" ELSE "LOST"
resultOf(pnl) == IF pnl >= 0 THEN "WON" ELSE "LOST"

\* type = pnl > 0 ? 'SELL_PROFIT' : 'SELL_STOP_LOSS'
ZeroIsProfitMutant(pnl) == IF pnl >= 0 THEN "SELL_PROFIT" ELSE "SELL_STOP_LOSS"
sellType(pnl) == IF pnl > 0 THEN "SELL_PROFIT" ELSE "SELL_STOP_LOSS"

\* The legacy closed-market trade that lost: the return is 0
LostWithoutPnlMutant(cost) ==
    [returnUSDC |-> Str(0), pnlUSDC |-> Undefined, pnlPercent |-> Undefined,
     type |-> "SELL_STOP_LOSS", result |-> "LOST"]
legacyLost(cost) ==
    [returnUSDC |-> Str(0),
     pnlUSDC |-> Str(toFixed2(0 - cost)),
     pnlPercent |-> Str(0 - 10000),
     type |-> "SELL_STOP_LOSS",
     result |-> "LOST"]

\* Trade.timestamp: an ISO string, as toISOString writes it, or a string
\* that new Date() does not parse
IsoTime(ms) == [valid |-> TRUE, ms |-> ms]
NotATime == [valid |-> FALSE]

\* transformRawTrade: threw tells that toISOString rejected an invalid date
\* (RangeError: Invalid time value), in which case there is no trade.
transformRawTrade(raw) ==
    LET costUSDC == toFixed2(raw.outcomeTokenNetCost)
        collateralAmount == toFixed2(raw.collateralAmount)
        outcomeAmount == raw.outcomeTokenAmount
        isBuy == raw.strategy = <<"Buy">>
        isRedeem == raw.strategy = <<"Redeem">> \/ includes(raw.strategy, "Redeem")
        isSell == raw.strategy = <<"Sell">> \/ includes(raw.strategy, "Sell")
        cost == parseFloat(costUSDC)
        closed ==
            IF isRedeem \/ isSell
            THEN LET pnl == parseFloat(collateralAmount) - cost
                 IN [returnUSDC |-> Str(collateralAmount),
                     pnlUSDC |-> Str(toFixed2(pnl)),
                     pnlPercent |-> IF cost # 0 THEN percentOf(pnl, cost)
                                    ELSE Str(0),
                     type |-> IF isRedeem THEN "REDEEM" ELSE sellType(pnl),
                     result |-> resultOf(pnl)]
            ELSE IF raw.winningOutcomeIndex # NoWinner
            THEN IF raw.winningOutcomeIndex = raw.outcomeIndex
                 THEN LET pnl == outcomeAmount - cost
                      IN [returnUSDC |-> Str(toFixed2(outcomeAmount)),
                          pnlUSDC |-> Str(toFixed2(pnl)),
                          pnlPercent |-> percentOf(pnl, cost),
                          type |-> sellType(pnl),
                          result |-> "WON"]
                 ELSE legacyLost(cost)
            ELSE [returnUSDC |-> Undefined,
                  pnlUSDC |-> Undefined,
                  pnlPercent |-> Undefined,
                  type |-> "BUY",
                  result |-> "undefined"]
    IN IF ~raw.blockTimestamp.ok
       THEN [threw |-> TRUE]
       ELSE [threw |-> FALSE,
             trade |-> [timestamp |-> IsoTime(raw.blockTimestamp.secs * MsPerSecond),
                        type |-> closed.type,
                        outcome |-> raw.outcomeIndex,
                        investmentUSDC |-> IF isBuy THEN Str(costUSDC) ELSE Undefined,
                        costUSDC |-> Str(costUSDC),
                        returnUSDC |-> closed.returnUSDC,
                        pnlUSDC |-> closed.pnlUSDC,
                        pnlPercent |-> closed.pnlPercent,
                        strategy |-> raw.strategy,
                        result |-> closed.result]]

\* fetchTrades of the dashboard: every line of trades.jsonl is parsed and
\* transformed; an error in any of them is caught and [] is returned.
fetchTradesFrom(lines) ==
    IF \E i \in 1..Len(lines) : transformRawTrade(lines[i]).threw
    THEN <<>>
    ELSE [i \in 1..Len(lines) |-> transformRawTrade(lines[i]).trade]

\* --------------------------------------------- the dashboard: statistics
\* closedTrades = trades.filter(...)
EveryTradeClosedMutant(trade) == TRUE
isClosed(trade) ==
    \/ trade.type = "SELL_PROFIT"
    \/ trade.type = "SELL_STOP_LOSS"
    \/ trade.type = "REDEEM"
    \/ trade.result # "undefined"

\* The if / else if of the forEach over closedTrades
sideOf(trade) ==
    IF pnlOf(trade) > 0 \/ trade.result = "WON" \/ trade.type = "SELL_PROFIT"
    THEN "profit"
    ELSE IF pnlOf(trade) < 0 \/ trade.result = "LOST"
            \/ trade.type = "SELL_STOP_LOSS"
    THEN "loss"
    ELSE "none"

\* winRate: `${((profitableTrades / totalTrades) * 100).toFixed(1)}%` or '0%'
ZeroPercent == [fmt |-> "0%"]
winRateOf(profitable, total) ==
    IF total > 0 THEN [fmt |-> "X.X%", v |-> RoundDiv(profitable * 1000, total)]
    ELSE ZeroPercent

\* calculateStatsFromTrades (amounts in cents; the uptime fields are left out)
calculateStatsFromTrades(ts) ==
    LET n == Len(ts)
        closedAt == {i \in 1..n : isClosed(ts[i])}
        profitAt == {i \in closedAt : sideOf(ts[i]) = "profit"}
        lossAt == {i \in closedAt : sideOf(ts[i]) = "loss"}
        totalProfitUSDC ==
            SumSeq([i \in 1..n |-> IF i \in profitAt THEN Abs(pnlOf(ts[i])) ELSE 0])
        totalLossUSDC ==
            SumSeq([i \in 1..n |-> IF i \in lossAt THEN Abs(pnlOf(ts[i])) ELSE 0])
    IN [totalTrades |-> Cardinality(closedAt),
        profitableTrades |-> Cardinality(profitAt),
        losingTrades |-> Cardinality(lossAt),
        totalProfitUSDC |-> totalProfitUSDC,
        totalLossUSDC |-> totalLossUSDC,
        netProfitUSDC |-> totalProfitUSDC - totalLossUSDC,
        winRate |-> winRateOf(Cardinality(profitAt), Cardinality(closedAt)),
        tradedVolume |->
            SumSeq([i \in 1..n |-> IF ts[i].costUSDC.tag = "num"
                                   THEN ts[i].costUSDC.v ELSE 0])]

\* fetchStats: the points history is read from points_hist.json; when it
\* parses to an array that is not empty, its last element is the latest
\* entry. A missing or unreadable blob is caught: no points.
latestPoints(blob) ==
    IF blob.kind = "json" /\ Len(blob.body) > 0
    THEN [found |-> TRUE, latest |-> blob.body[Len(blob.body)]]
    ELSE [found |-> FALSE]

\* fetchStats: stats = { ...stats, ...existingStats } when stats.json is
\* there and parses, else the calculated statistics (the points of
\* points_hist.json are left out)
fetchStatsFrom(lines, statsBlob) ==
    LET stats == calculateStatsFromTrades(fetchTradesFrom(lines))
    IN IF statsBlob.kind = "json"
       THEN [f \in DOMAIN stats \cup DOMAIN statsBlob.body |->
                IF f \in DOMAIN statsBlob.body THEN statsBlob.body[f] ELSE stats[f]]
       ELSE stats

\* ------------------------------------------ the dashboard: daily breakdown
\* parsedDate.toLocaleDateString('en-US', { month: 'short', day: 'numeric' }):
\* the day of the year, without the year
dateLabel(ms) == (ms \div (MsPerSecond * TicksPerDay)) % DaysPerYear

\* date = 'Invalid Date'
InvalidDate == -1

\* safeParseFloat(trade.costUSDC || trade.investmentUSDC), idem for the return
amountOf(first, second) ==
    IF first.tag = "num" THEN first.v
    ELSE IF second.tag = "num" THEN second.v
    ELSE 0

\* calculateDailyStats: one bucket per label, created at the first trade of
\* the label with that trade's timestamp (0 for 'Invalid Date'); the buckets
\* are sorted by that timestamp, descending, equals in the order of creation.
calculateDailyStats(ts) ==
    LET n == Len(ts)
        labelOf(i) == IF ts[i].timestamp.valid
                      THEN dateLabel(ts[i].timestamp.ms) ELSE InvalidDate
        stampOf(i) == IF ts[i].timestamp.valid THEN ts[i].timestamp.ms ELSE 0
        labels == {labelOf(i) : i \in 1..n}
        at(l) == {i \in 1..n : labelOf(i) = l}
        firstAt(l) == CHOOSE i \in at(l) : \A j \in at(l) : i <= j
        counted(i) == ts[i].type \in {"SELL_PROFIT", "SELL_STOP_LOSS", "REDEEM"}
        win(i) == counted(i) /\ (pnlOf(ts[i]) > 0 \/ ts[i].result = "WON")
        loss(i) == counted(i) /\ ~win(i)
                      /\ (pnlOf(ts[i]) < 0 \/ ts[i].result = "LOST")
        sum(l, f(_)) == SumSeq([i \in 1..n |-> IF i \in at(l) THEN f(i) ELSE 0])
        profitOf(i) == IF win(i) THEN Abs(pnlOf(ts[i])) ELSE 0
        lossOf(i) == IF loss(i) THEN Abs(pnlOf(ts[i])) ELSE 0
        netOf(i) == IF counted(i) THEN pnlOf(ts[i]) ELSE 0
        volumeOf(i) == Max(amountOf(ts[i].costUSDC, ts[i].investmentUSDC),
                           amountOf(ts[i].returnUSDC, Undefined))
        bucket(l) == [date |-> l,
                      trades |-> Cardinality({i \in at(l) : counted(i)}),
                      wins |-> Cardinality({i \in at(l) : win(i)}),
                      losses |-> Cardinality({i \in at(l) : loss(i)}),
                      profitUSDC |-> sum(l, profitOf),
                      lossUSDC |-> sum(l, lossOf),
                      netProfitUSDC |-> sum(l, netOf),
                      volumeUSDC |-> sum(l, volumeOf)]
        stamp(l) == stampOf(firstAt(l))
        rank(l) == Cardinality({m \in labels :
                                  \/ stamp(m) > stamp(l)
                                  \/ /\ stamp(m) = stamp(l)
                                     /\ firstAt(m) <= firstAt(l)})
    IN [k \in 1..Cardinality(labels) |->
            bucket(CHOOSE l \in labels : rank(l) = k)]

\* ------------------------------------------------ the dashboard: loading
\* raw.blockTimestamp: Unix seconds as a string, or a string parseInt rejects
BlockTimestamps ==
    {[ok |-> FALSE, secs |-> 0]} \cup
    {[ok |-> TRUE, secs |-> DateValue(d)] : d \in {0, 1, DaysPerYear}}

Strategies ==
    {<<"Buy">>, <<"Sell">>, <<"Redeem">>, <<"Sell", "Redeem">>, <<"Hold">>}

\* interface RawTrade
RawTrades ==
    [blockTimestamp : BlockTimestamps,
     winningOutcomeIndex : {NoWinner, 0},
     outcomeIndex : {0, 1},
     outcomeTokenNetCost : {0, 4},
     outcomeTokenAmount : {0, 4},
     collateralAmount : {0, 4, 6},
     strategy : Strategies]

\* The raw trades that make the files of several lines
MoreRawTrades ==
    {r \in RawTrades :
        /\ r.blockTimestamp.ok /\ r.blockTimestamp.secs > 0
        /\ r.outcomeIndex = 0
        /\ r.outcomeTokenNetCost = 4
        /\ r.outcomeTokenAmount = 0
        /\ r.strategy # <<"Sell", "Redeem">>}

\* Sells of the same day, of the next day and of the same day a year later
YearApartTrades ==
    {r \in RawTrades :
        /\ r.blockTimestamp.ok
        /\ r.winningOutcomeIndex = NoWinner
        /\ r.outcomeIndex = 0
        /\ r.outcomeTokenNetCost = 4
        /\ r.outcomeTokenAmount = 0
        /\ r.collateralAmount = 6
        /\ r.strategy = <<"Sell">>}

\* trades.jsonl: no line, one line of any kind, up to MaxBatch lines, one
\* line more of trades a day or a year apart, or a line followed by one
\* whose timestamp does not parse
TradeFiles ==
    {<<>>} \cup {<<r>> : r \in RawTrades}
           \cup UNION {[1..n -> MoreRawTrades] : n \in 2..MaxBatch}
           \cup [1..(MaxBatch + 1) -> YearApartTrades]
           \cup {<<r, [r EXCEPT !.blockTimestamp = [ok |-> FALSE, secs |-> 0]]>> :
                    r \in MoreRawTrades}

\* stats.json as the handler wrote it for these trades, or no such blob
StatsBlobs(lines) ==
    {Missing,
     Json(calculateStats([i \in 1..Len(lines) |-> apiTrade(lines[i].blockTimestamp)],
                         NullPayload, NullPayload))}

InitDash ==
    /\ now = 0
    /\ store = [k \in Keys |-> Missing]
    /\ lastWriter = [k \in Keys |-> "none"]
    /\ InitHandler
    /\ faultsLeft = 0
    /\ MergeIdle
    /\ WeeklyIdle
    /\ AuthIdle
    /\ dLines \in TradeFiles
    /\ dStatsBlob \in StatsBlobs(dLines)
    /\ dTrades = <<>>
    /\ dCalc = <<>>
    /\ dStats = <<>>
    /\ dDaily = <<>>
    /\ dStage = "start"

\* loadData: Promise.all([fetchTrades(), fetchStats(), fetchState()]), then
\* setTrades and setStats
LoadData ==
    /\ dStage = "start"
    /\ dTrades' = fetchTradesFrom(dLines)
    /\ dCalc' = calculateStatsFromTrades(fetchTradesFrom(dLines))
    /\ dStats' = fetchStatsFrom(dLines, dStatsBlob)
    /\ dStage' = "loaded"
    /\ UNCHANGED <<now, store, lastWriter, handlerVars, mergeVars, dLines,
                   dStatsBlob, dDaily, weeklyVars, authVars>>

\* DailyBreakdown: useMemo(() => calculateDailyStats(trades))
RenderDaily ==
    /\ dStage = "loaded"
    /\ dDaily' = calculateDailyStats(dTrades)
    /\ dStage' = "rendered"
    /\ UNCHANGED <<now, store, lastWriter, handlerVars, mergeVars, dLines,
                   dStatsBlob, dTrades, dCalc, dStats, weeklyVars, authVars>>

NextDash == LoadData \/ RenderDaily

SpecDash == InitDash /\ [][NextDash]_vars

\* --------------------------------- the SETUP.md handler: weekly summary
\* The trades of GET /portfolio/trades in a market that is open, closed
\* without a winner (absent or null) or resolved
ApiTrades ==
    [blockTimestamp : {DateValue(0), DateValue(DaysPerWeek)},
     type : {"undefined"}, pnlUSDC : {Undefined}, result : {"undefined"},
     closed : {"true", "false", "undefined"},
     winningOutcomeIndex : {Undefined, Null, Index(0)},
     outcomeIndex : {0, 1},
     outcomeTokenNetCost : {4},
     outcomeTokenAmount : {0, 1}]

\* Those that make the answers of several trades
MoreApiTrades ==
    {t \in ApiTrades :
        /\ t.closed = "true"
        /\ t.winningOutcomeIndex # Undefined
        /\ t.outcomeTokenAmount = 1}

ApiAnswers ==
    {<<>>} \cup {<<t>> : t \in ApiTrades}
           \cup UNION {[1..n -> MoreApiTrades] : n \in 2..MaxApiBatch}

InitWeekly ==
    /\ now = 0
    /\ store = [k \in Keys |-> Missing]
    /\ lastWriter = [k \in Keys |-> "none"]
    /\ InitHandler
    /\ faultsLeft = 0
    /\ MergeIdle
    /\ DashIdle
    /\ AuthIdle
    /\ wTrades \in ApiAnswers
    /\ wStats = <<>>
    /\ wWeekly = <<>>
    /\ wStage = "fetched"

\* const stats = calculateStats(trades, points, volume), volume being null
ComputeStats ==
    /\ wStage = "fetched"
    /\ wStats' = calculateStatsSetup(wTrades, NullPayload, NullPayload)
    /\ wStage' = "stats"
    /\ UNCHANGED <<now, store, lastWriter, handlerVars, mergeVars, dashVars,
                   wTrades, wWeekly, authVars>>

\* const weeklySummary = calculateWeeklySummary(trades)
ComputeWeekly ==
    /\ wStage = "stats"
    /\ wWeekly' = calculateWeeklySummary(wTrades)
    /\ wStage' = "weekly"
    /\ UNCHANGED <<now, store, lastWriter, handlerVars, mergeVars, dashVars,
                   wTrades, wStats, authVars>>

NextWeekly == ComputeStats \/ ComputeWeekly

SpecWeekly == InitWeekly /\ [][NextWeekly]_vars

\* ------------------------------------------- the handler: authentication
\* sessionExpiresAt > now + 600000
BUFFER_MS == 600000

\* sessionExpiresAt = now + (23 * 60 * 60 * 1000)
SESSION_MS == 23 * 60 * 60 * 1000

\* wallet.address of new ethers.Wallet(PRIVATE_KEY)
Address == "0xWallet"

\* HTTP statuses of the API's answers: OK, unauthorized, another failure
Statuses == {200, 401, 500}

\* The module-level variables, as one record
sessionOf ==
    [cachedSessionCookie |-> cachedSessionCookie,
     sessionExpiresAt |-> sessionExpiresAt,
     walletAddress |-> walletAddress]

\* authenticate(): new ethers.Wallet throws on an unusable key; the address
\* is stored before the first request; the signing-message and login
\* requests may fail (apiOk); else the cookie the API set is returned.
WalletNeverStoredMutant(key, apiOk, wallet, cookie) ==
    IF key # "valid" \/ ~apiOk
    THEN [threw |-> TRUE, walletAddress |-> wallet, cookie |-> 0]
    ELSE [threw |-> FALSE, walletAddress |-> wallet, cookie |-> cookie]
authenticate(key, apiOk, wallet, cookie) ==
    IF key # "valid"
    THEN [threw |-> TRUE, walletAddress |-> wallet, cookie |-> 0]
    ELSE IF ~apiOk
    THEN [threw |-> TRUE, walletAddress |-> Address, cookie |-> 0]
    ELSE [threw |-> FALSE, walletAddress |-> Address, cookie |-> cookie]

\* cachedSessionCookie && sessionExpiresAt > now + 600000
NoBufferMutant(cookie, expiresAt, t) == cookie # 0 /\ expiresAt > t
sessionIsValid(cookie, expiresAt, t) == cookie # 0 /\ expiresAt > t + BUFFER_MS

\* ensureValidSession(), called at instant t: returns at once on a valid
\* cached session, else authenticates and, if that did not throw, stores
\* the cookie and the expiry.
ensureValidSession(sess, t, key, apiOk, cookie) ==
    IF sessionIsValid(sess.cachedSessionCookie, sess.sessionExpiresAt, t)
    THEN [threw |-> FALSE, authenticated |-> FALSE, sess |-> sess]
    ELSE LET a == authenticate(key, apiOk, sess.walletAddress, cookie)
         IN IF a.threw
            THEN [threw |-> TRUE, authenticated |-> TRUE,
                  sess |-> [sess EXCEPT !.walletAddress = a.walletAddress]]
            ELSE [threw |-> FALSE, authenticated |-> TRUE,
                  sess |-> [cachedSessionCookie |-> a.cookie,
                            sessionExpiresAt |-> t + SESSION_MS,
                            walletAddress |-> a.walletAddress]]

\* makeAuthenticatedRequest(url): first and retry are the statuses of the
\* answers; sent lists the cookie of every request sent, reauths counts the
\* calls of authenticate.
ReauthOnAnyFailureMutant(sess, t, first, key, apiOk, retry, cookie) ==
    IF first = 200
    THEN [threw |-> FALSE, sent |-> <<sess.cachedSessionCookie>>, reauths |-> 0,
          sess |-> sess]
    ELSE LET cleared == [sess EXCEPT !.cachedSessionCookie = 0,
                                     !.sessionExpiresAt = 0]
             e == ensureValidSession(cleared, t, key, apiOk, cookie)
         IN IF e.threw
            THEN [threw |-> TRUE, sent |-> <<sess.cachedSessionCookie>>,
                  reauths |-> 1, sess |-> e.sess]
            ELSE [threw |-> retry # 200,
                  sent |-> <<sess.cachedSessionCookie, e.sess.cachedSessionCookie>>,
                  reauths |-> 1, sess |-> e.sess]
makeAuthenticatedRequest(sess, t, first, key, apiOk, retry, cookie) ==
    IF first = 200
    THEN [threw |-> FALSE, sent |-> <<sess.cachedSessionCookie>>, reauths |-> 0,
          sess |-> sess]
    ELSE IF first = 401
    THEN LET cleared == [sess EXCEPT !.cachedSessionCookie = 0,
                                     !.sessionExpiresAt = 0]
             e == ensureValidSession(cleared, t, key, apiOk, cookie)
         IN IF e.threw
            THEN [threw |-> TRUE, sent |-> <<sess.cachedSessionCookie>>,
                  reauths |-> 1, sess |-> e.sess]
            ELSE [threw |-> retry # 200,
                  sent |-> <<sess.cachedSessionCookie, e.sess.cachedSessionCookie>>,
                  reauths |-> 1, sess |-> e.sess]
    ELSE [threw |-> TRUE, sent |-> <<sess.cachedSessionCookie>>, reauths |-> 0,
          sess |-> sess]

\* The time between two steps: a moment, the buffer, and what brings a
\* fresh session to just before, to and past the edge of the buffer
Durations ==
    {1, BUFFER_MS, SESSION_MS - BUFFER_MS - 1, SESSION_MS - BUFFER_MS, SESSION_MS}

InitAuth ==
    /\ now = 0
    /\ store = [k \in Keys |-> Missing]
    /\ lastWriter = [k \in Keys |-> "none"]
    /\ InitHandler
    /\ faultsLeft = 0
    /\ MergeIdle
    /\ DashIdle
    /\ WeeklyIdle
    /\ PRIVATE_KEY \in {"valid", "invalid"}
    /\ cachedSessionCookie = 0
    /\ sessionExpiresAt = 0
    /\ walletAddress = "null"
    /\ aPc = "idle"
    /\ aRuns = 0
    /\ aFaults = MaxApiFaults
    /\ aElapsed = 0
    /\ aAuths = 0
    /\ aEnsure = NoEnsure
    /\ aCall = NoCall

othersOfAuth == <<store, lastWriter, handlerVars, mergeVars, dashVars, weeklyVars>>

\* Time passes between two invocations.
Elapse ==
    /\ aPc = "idle"
    /\ aElapsed < MaxElapses
    /\ aElapsed' = aElapsed + 1
    /\ \E d \in Durations : now' = now + d
    /\ UNCHANGED <<othersOfAuth, PRIVATE_KEY, cachedSessionCookie,
                   sessionExpiresAt, walletAddress, aPc, aRuns, aFaults, aAuths,
                   aEnsure, aCall>>

\* The next invocation runs in a new execution environment: the module is
\* loaded anew.
ColdStart ==
    /\ aPc = "idle"
    /\ aRuns < MaxAuthRuns
    /\ cachedSessionCookie # 0 \/ walletAddress # "null"
    /\ cachedSessionCookie' = 0
    /\ sessionExpiresAt' = 0
    /\ walletAddress' = "null"
    /\ UNCHANGED <<now, othersOfAuth, PRIVATE_KEY, aPc, aRuns, aFaults, aElapsed,
                   aAuths, aEnsure, aCall>>

\* The module variables and the records of the calls after a call of
\* ensureValidSession (e) at the instant now
Ensured(e) ==
    /\ cachedSessionCookie' = e.sess.cachedSessionCookie
    /\ sessionExpiresAt' = e.sess.sessionExpiresAt
    /\ walletAddress' = e.sess.walletAddress
    /\ aAuths' = IF e.authenticated /\ ~e.threw THEN aAuths + 1 ELSE aAuths

\* exports.handler: await ensureValidSession(); a throw ends the run (500).
StartRun ==
    /\ aPc = "idle"
    /\ aRuns < MaxAuthRuns
    /\ aRuns' = aRuns + 1
    /\ \E apiOk \in BOOLEAN :
        LET e == ensureValidSession(sessionOf, now, PRIVATE_KEY, apiOk, aAuths + 1)
        IN /\ ~apiOk => e.authenticated /\ PRIVATE_KEY = "valid"
           /\ aFaults' = IF apiOk THEN aFaults ELSE aFaults - 1
           /\ aFaults' >= 0
           /\ Ensured(e)
           /\ aEnsure' = [called |-> TRUE, at |-> now, before |-> sessionOf,
                          authenticated |-> e.authenticated, threw |-> e.threw,
                          after |-> e.sess]
           /\ aPc' = IF e.threw THEN "idle" ELSE "positions"
    /\ UNCHANGED <<now, othersOfAuth, PRIVATE_KEY, aElapsed, aCall>>

\* A fetch helper: try { await makeAuthenticatedRequest(url) ... } catch
\* { return [] or null }; the handler goes on to the next one.
Fetch(helper, next) ==
    /\ aPc = helper
    /\ \E first, retry \in Statuses, apiOk \in BOOLEAN :
        LET r == makeAuthenticatedRequest(sessionOf, now, first, PRIVATE_KEY,
                                          apiOk, retry, aAuths + 1)
            retried == Len(r.sent) = 2
            cleared == [sessionOf EXCEPT !.cachedSessionCookie = 0,
                                         !.sessionExpiresAt = 0]
        IN /\ ~apiOk => r.reauths = 1 /\ PRIVATE_KEY = "valid"
           /\ retry # 200 => retried
           /\ aFaults' = aFaults - (IF first # 200 THEN 1 ELSE 0)
                                 - (IF apiOk THEN 0 ELSE 1)
                                 - (IF retry # 200 THEN 1 ELSE 0)
           /\ aFaults' >= 0
           /\ cachedSessionCookie' = r.sess.cachedSessionCookie
           /\ sessionExpiresAt' = r.sess.sessionExpiresAt
           /\ walletAddress' = r.sess.walletAddress
           /\ aAuths' = IF r.sess.cachedSessionCookie = aAuths + 1
                        THEN aAuths + 1 ELSE aAuths
           /\ aEnsure' = IF r.reauths = 0 THEN aEnsure
                         ELSE [called |-> TRUE, at |-> now, before |-> cleared,
                               authenticated |-> TRUE, threw |-> ~retried,
                               after |-> r.sess]
           /\ aCall' = [called |-> TRUE, helper |-> helper, first |-> first,
                        retry |-> retry, sent |-> r.sent, reauths |-> r.reauths,
                        threw |-> r.threw, before |-> sessionOf,
                        after |-> r.sess]
    /\ aPc' = next
    /\ UNCHANGED <<now, othersOfAuth, PRIVATE_KEY, aRuns, aElapsed>>

FetchPositions == Fetch("positions", "trades")
FetchTrades == Fetch("trades", "points")
FetchPoints == Fetch("points", "volume")
\* fetchTradedVolume(walletAddress); what follows does not use the session
FetchTradedVolume == Fetch("volume", "idle")

NextAuth ==
    \/ Elapse
    \/ ColdStart
    \/ StartRun
    \/ FetchPositions
    \/ FetchTrades
    \/ FetchPoints
    \/ FetchTradedVolume

SpecAuth == InitAuth /\ [][NextAuth]_vars

\* ================================================================ properties
InOrder(series, dir) ==
    \A i \in 1..(Len(series) - 1) :
        IF dir = "desc" THEN series[i].date > series[i + 1].date
        ELSE series[i].date < series[i + 1].date

UniqueDates(series) ==
    \A i, j \in 1..Len(series) : series[i].date = series[j].date => i = j

Stored(key) == IF store[key].kind = "json" THEN store[key].body ELSE <<>>

Count(series, e) == Cardinality({i \in 1..Len(series) : series[i] = e})

Entries(series) == {series[i] : i \in 1..Len(series)}

\* C1: starting from a missing or empty history blob, after any sequence of
\* handler runs, on the same day or on different days, each persisted history
\* series (volume-history.json, points-history.json, points_hist.json) holds
\* at most one entry per date.
C1_OneEntryPerDate == \A k \in HistoryKeys : UniqueDates(Stored(k))

\* Two runs on different days have left two entries in volume-history.json.
C1_Witness ==
    /\ runs = 2
    /\ pc["A"] = "idle"
    /\ statusCode["A"] = 200
    /\ Len(Stored(VolumeKey)) = 2

\* C2 as stated: a second update the same calendar day with the same metrics
\* leaves the series of the first update.
C2_SameSeriesAsStated == mStage = "twice" => mAgain = mOut

\* C2, amended: a second update the same calendar day with the same metrics
\* yields the series of the first update but for the lastUpdated of today's
\* entry, which is the instant of the second update; at the same instant
\* (the same entry E) it yields the same series.
C2_IdempotentButLastUpdated ==
    mStage = "twice" =>
        /\ \/ \E i \in 1..Len(mOut) :
                 /\ mOut[i].date = mToday
                 /\ mAgain = [mOut EXCEPT ![i].lastUpdated = mTs2]
           \/ /\ \A i \in 1..Len(mOut) : mOut[i].date # mToday
              /\ mAgain = mOut
        /\ mTs2 = mTs => mAgain = mOut

\* The second update came later the same day and only lastUpdated moved.
C2_Witness ==
    /\ mStage = "twice"
    /\ mTs2 > mTs
    /\ Len(mIn) >= 1
    /\ Len(mAgain) = Len(mOut)
    /\ mAgain # mOut

\* C3 as stated: a run that ended with statusCode 500 has written no blob.
C3_ErrorRunWroteNothing ==
    \A p \in Procs : statusCode[p] = 500 => written[p] = {}

\* C4 as stated: when the raw-trade fetch fails, the run ends in an error
\* and writes no blob (trades.jsonl stays as it was).
C4_TradeFetchFailureAborts ==
    \A p \in Procs :
        "trades" \in failed[p] => written[p] = {} /\ statusCode[p] # 200

\* C5 as stated: with the trades fetched, a run in which only optional steps
\* failed (points, volume or positions fetch, a read or a write of a history
\* blob) does not end in an error.
OptionalSteps ==
    {"points", "volume", "positions", "volGet", "volPut", "ptsGet", "ptsPut",
     "histGet", PointsHistKey}

C5_OptionalFailureTolerated ==
    \A p \in Procs :
        failed[p] # {} /\ failed[p] \subseteq OptionalSteps => statusCode[p] # 500

\* C6: when the stored history blob is missing or does not parse, the update
\* takes the existing history as empty, the series it puts is exactly the
\* entry of today, and the read does not fail the run.
C6_Step(p) ==
    /\ ( /\ pc[p] = "volGet" /\ pc'[p] # "volGet"
         /\ faultsLeft' = faultsLeft
         /\ store[VolumeKey].kind # "json" )
       => /\ pc'[p] = "volPut"
          /\ history'[p] = <<[date |-> today[p],
                              volume |-> currentVolume(volume[p]),
                              lastUpdated |-> now]>>
    /\ pc[p] = "volPut" /\ pc'[p] = "ptsGet"
       => store'[VolumeKey] = Json(history[p])
    /\ ( /\ pc[p] = "ptsGet" /\ pc'[p] # "ptsGet"
         /\ faultsLeft' = faultsLeft
         /\ store[PointsKey].kind # "json" )
       => /\ pc'[p] = "ptsPut"
          /\ history'[p] = <<[date |-> today[p],
                              season1 |-> pointsOf(points[p]).season1,
                              season2 |-> pointsOf(points[p]).season2,
                              currentMonth |-> pointsOf(points[p]).currentMonth,
                              lastUpdated |-> now]>>
    /\ pc[p] = "ptsPut" /\ pc'[p] = "uploading"
       => store'[PointsKey] = Json(history[p])
    /\ ( /\ pc[p] = "histGet" /\ pc'[p] # "histGet"
         /\ store[PointsHistKey].kind # "json" )
       => /\ pc'[p] = "uploading"
          /\ pointsHistory'[p] = <<[date |-> ISODate(now),
                                    season1 |-> pointsOf(points[p]).season1,
                                    season2 |-> pointsOf(points[p]).season2,
                                    currentMonth |-> pointsOf(points[p]).currentMonth,
                                    volume |-> 0,
                                    lastUpdated |-> now]>>
    /\ pc[p] = "uploading" /\ PointsHistKey \in written'[p]
       => store'[PointsHistKey] = Json(pointsHistory[p])

C6_UnreadableHistoryStartsFresh == [][\A p \in Procs : C6_Step(p)]_vars

\* The stored blob does not parse and the update is about to put one entry.
C6_Witness ==
    /\ pc["A"] = "volPut"
    /\ store[VolumeKey].kind = "corrupt"
    /\ Len(history["A"]) = 1

\* C7: when runs overlap on a history blob, the blob is the series computed
\* by the run whose put landed last, whatever the other run had put, and it
\* holds at most one entry per date.
computed(p, key) == IF key = VolumeKey THEN volumeHistory[p] ELSE pointsHistory[p]

C7_LastWriteWins ==
    \A k \in HistoryKeys :
        /\ \A p \in Procs :
              lastWriter[k] = p /\ k \in written[p]
                  => store[k] = Json(computed(p, k))
        /\ UniqueDates(Stored(k))

\* Both runs succeeded, A's put landed last and the entry B added is gone.
C7_Witness ==
    /\ pc["A"] = "idle" /\ pc["B"] = "idle"
    /\ statusCode["A"] = 200 /\ statusCode["B"] = 200
    /\ VolumeKey \in written["A"] /\ VolumeKey \in written["B"]
    /\ lastWriter[VolumeKey] = "A"
    /\ \E e \in Entries(volumeHistory["B"]) :
          \A f \in Entries(Stored(VolumeKey)) : f.date # e.date

\* C8: the update changes only today's entry: the entries of other dates
\* are kept as they were, each as often as before (while the series stays
\* within the cap); an entry of today is replaced where there was one and
\* one is added where there was none.
C8_WithinCap == mKind = "hist" \/ Len(mIn) < HISTORY_CAP

C8_OnlyTodayChanges ==
    mStage \in {"once", "twice"} /\ C8_WithinCap =>
        /\ \A e \in Entries(mIn) \cup Entries(mOut) :
              e.date # mToday => Count(mOut, e) = Count(mIn, e)
        /\ Cardinality({i \in 1..Len(mOut) : mOut[i].date = mToday})
              = IF \E i \in 1..Len(mIn) : mIn[i].date = mToday
                THEN Cardinality({i \in 1..Len(mIn) : mIn[i].date = mToday})
                ELSE 1
        /\ \E i \in 1..Len(mOut) :
              /\ mOut[i].date = mToday
              /\ mOut[i].lastUpdated = mTs

\* A series holding one earlier day became a series of two days.
C8_Witness ==
    /\ mStage = "once"
    /\ Len(mIn) = 1
    /\ mIn[1].date < mToday
    /\ Len(mOut) = 2
    /\ {mOut[1].date, mOut[2].date} = {mIn[1].date, mToday}

C10_CapKeepsMostRecent ==
    mStage \in {"once", "twice"} /\ mKind # "hist" =>
        LET added == IF \E i \in 1..Len(mIn) : mIn[i].date = mToday THEN 0 ELSE 1
            kept == {mOut[i].date : i \in 1..Len(mOut)}
            held == {mIn[i].date : i \in 1..Len(mIn)} \cup {mToday}
        IN /\ Len(mOut) = Min(Len(mIn) + added, HISTORY_CAP)
           /\ kept \subseteq held
           /\ \A d \in held \ kept : \A k \in kept : d < k

\* A full series without today's entry: the merge held 91 and the oldest went.
C10_Witness ==
    /\ mStage = "once"
    /\ mKind = "volume"
    /\ Len(mIn) = HISTORY_CAP
    /\ \A i \in 1..Len(mIn) : mIn[i].date # mToday
    /\ Len(mOut) = HISTORY_CAP
    /\ mOut[1].date = mToday
    /\ \A i \in 1..Len(mOut) : mOut[i].date # mIn[Len(mIn)].date

\* C11: every trade of the normalizer has result and pnlUSDC both defined or
\* both undefined, and its type is BUY exactly when pnlUSDC is undefined.
C11_ResultWithPnl ==
    \A i \in 1..Len(dTrades) :
        /\ dTrades[i].result # "undefined" <=> dTrades[i].pnlUSDC.tag # "undefined"
        /\ dTrades[i].type = "BUY" <=> dTrades[i].pnlUSDC.tag = "undefined"

\* A lost legacy closed-market trade was normalized: result LOST with the
\* cost as its loss, and a type other than BUY.
C11_Witness ==
    /\ dStage = "loaded"
    /\ \E i \in 1..Len(dTrades) :
          /\ dTrades[i].strategy = <<"Hold">>
          /\ dTrades[i].result = "LOST"
          /\ dTrades[i].pnlUSDC = Str(0 - 1)
          /\ dTrades[i].type # "BUY"

\* C12 as stated: a raw trade of strategy "Buy" is normalized to type BUY
\* with result undefined, whatever its other fields.
C12_BuyStaysOpen ==
    \A i \in 1..Len(dTrades) :
        dTrades[i].strategy = <<"Buy">>
            => dTrades[i].type = "BUY" /\ dTrades[i].result = "undefined"

\* C13: a raw trade whose strategy is or contains "Redeem" (with "Sell" as
\* well or not) is normalized to type REDEEM, with result WON when
\* returnUSDC >= costUSDC and LOST otherwise.
C13_RedeemResult ==
    \A i \in 1..Len(dTrades) :
        includes(dTrades[i].strategy, "Redeem") =>
            /\ dTrades[i].type = "REDEEM"
            /\ dTrades[i].returnUSDC.tag = "num"
            /\ dTrades[i].result =
                  IF dTrades[i].returnUSDC.v >= dTrades[i].costUSDC.v
                  THEN "WON" ELSE "LOST"

\* A "Sell ... Redeem" trade that returned just its cost was normalized.
C13_Witness ==
    /\ dStage = "loaded"
    /\ Len(dTrades) = 1
    /\ dTrades[1].strategy = <<"Sell", "Redeem">>
    /\ dTrades[1].returnUSDC = dTrades[1].costUSDC
    /\ dTrades[1].costUSDC = Str(1)
    /\ dTrades[1].result = "WON"

\* C14: a raw trade whose strategy is or contains "Sell" and not "Redeem" is
\* normalized with pnl = received - cost, type SELL_PROFIT when pnl > 0 and
\* SELL_STOP_LOSS otherwise, result WON when pnl >= 0 and LOST otherwise.
C14_SellByPnl ==
    \A i \in 1..Len(dTrades) :
        includes(dTrades[i].strategy, "Sell")
        /\ ~includes(dTrades[i].strategy, "Redeem") =>
            LET pnl == dTrades[i].returnUSDC.v - dTrades[i].costUSDC.v
            IN /\ dTrades[i].pnlUSDC = Str(pnl)
               /\ dTrades[i].type =
                     IF pnl > 0 THEN "SELL_PROFIT" ELSE "SELL_STOP_LOSS"
               /\ dTrades[i].result = IF pnl >= 0 THEN "WON" ELSE "LOST"

\* A sell at zero pnl: SELL_STOP_LOSS with result WON.
C14_Witness ==
    /\ dStage = "loaded"
    /\ \E i \in 1..Len(dTrades) :
          /\ dTrades[i].strategy = <<"Sell">>
          /\ dTrades[i].pnlUSDC = Str(0)
          /\ dTrades[i].costUSDC = Str(1)
          /\ dTrades[i].type = "SELL_STOP_LOSS"
          /\ dTrades[i].result = "WON"

\* C15 as stated: a realized trade whose cost is 0 has pnlPercent "0.00".
C15_ZeroCostPercent ==
    \A i \in 1..Len(dTrades) :
        dTrades[i].pnlUSDC.tag # "undefined" /\ dTrades[i].costUSDC = Str(0)
            => dTrades[i].pnlPercent = Str(0)

\* C16 as stated: every line of the file yields a trade, whatever its
\* timestamp.
C16_EveryLineYieldsATrade ==
    dStage # "start" => Len(dTrades) = Len(dLines)

\* The closed trades of the collection, and those whose pnlUSDC has the
\* given sign
ClosedAt(ts) ==
    {i \in 1..Len(ts) :
        \/ ts[i].type \in {"SELL_PROFIT", "SELL_STOP_LOSS", "REDEEM"}
        \/ ts[i].result # "undefined"}

ClosedBySign(ts, sign) ==
    {i \in ClosedAt(ts) :
        IF sign > 0 THEN pnlOf(ts[i]) > 0 ELSE pnlOf(ts[i]) < 0}

\* C17 as stated: profitableTrades and losingTrades count the closed trades
\* of positive and of negative pnlUSDC: none is counted twice, one of zero
\* pnl is counted in neither, and together they do not exceed totalTrades.
C17_PartitionBySign ==
    dStage # "start" =>
        /\ dCalc.profitableTrades = Cardinality(ClosedBySign(dTrades, 1))
        /\ dCalc.losingTrades = Cardinality(ClosedBySign(dTrades, 0 - 1))
        /\ dCalc.profitableTrades + dCalc.losingTrades <= dCalc.totalTrades

\* C18 as stated: totalProfitUSDC is the sum of pnl over the closed trades
\* of positive pnl and totalLossUSDC the sum of |pnl| over those of negative
\* pnl; a trade of negative pnl adds nothing to totalProfitUSDC.
C18_SumsBySign ==
    dStage # "start" =>
        /\ dCalc.totalProfitUSDC =
              SumSeq([i \in 1..Len(dTrades) |->
                        IF i \in ClosedBySign(dTrades, 1)
                        THEN pnlOf(dTrades[i]) ELSE 0])
        /\ dCalc.totalLossUSDC =
              SumSeq([i \in 1..Len(dTrades) |->
                        IF i \in ClosedBySign(dTrades, 0 - 1)
                        THEN 0 - pnlOf(dTrades[i]) ELSE 0])

\* C19 as stated: without closed trades the statistics have totalTrades 0,
\* netProfitUSDC 0 and winRate "0%": those the dashboard computes, and
\* those of the stats.json the handler wrote.
C19_NoClosedTrades ==
    dStage # "start" /\ ClosedAt(dTrades) = {} =>
        /\ dCalc.totalTrades = 0
        /\ dCalc.netProfitUSDC = 0
        /\ dCalc.winRate = [fmt |-> "0%"]
        /\ dStatsBlob.kind = "json" =>
              /\ dStatsBlob.body.totalTrades = 0
              /\ dStatsBlob.body.netProfitUSDC = 0
              /\ dStatsBlob.body.winRate = [fmt |-> "0%"]

\* C20: for every list of trades of the normalizer, the trades counts of
\* the daily buckets add up to the totalTrades of the aggregator.
C20_BucketsAddUp ==
    dStage = "rendered" =>
        SumSeq([k \in 1..Len(dDaily) |-> dDaily[k].trades]) = dCalc.totalTrades

\* An open buy and a closed trade of different days: two buckets, one trade.
C20_Witness ==
    /\ dStage = "rendered"
    /\ Len(dTrades) = 2
    /\ Len(dDaily) = 2
    /\ dCalc.totalTrades = 1
    /\ \E i \in 1..2 : dTrades[i].type = "BUY"

\* The calendar day (year, month and day) of a trade
DayOf(trade) == trade.timestamp.ms \div (MsPerSecond * TicksPerDay)

DaysOf(ts) == {DayOf(ts[i]) : i \in 1..Len(ts)}

\* C21 as stated: every daily bucket has netProfitUSDC = profitUSDC -
\* lossUSDC, whatever trades the normalizer produced, those whose result
\* disagrees with the sign of their pnlUSDC included.
C21_NetIsProfitLessLoss ==
    dStage = "rendered" =>
        \A k \in 1..Len(dDaily) :
            dDaily[k].netProfitUSDC = dDaily[k].profitUSDC - dDaily[k].lossUSDC

\* C22 as stated: the bucketizer emits one bucket per distinct calendar day
\* (year, month and day) of the trades, holding the trades of that day and
\* no other.
C22_OneBucketPerDay ==
    dStage = "rendered" =>
        /\ Len(dDaily) = Cardinality(DaysOf(dTrades))
        /\ \A d \in DaysOf(dTrades) :
              \E k \in 1..Len(dDaily) :
                  dDaily[k].volumeUSDC =
                      SumSeq([i \in 1..Len(dTrades) |->
                                IF DayOf(dTrades[i]) = d
                                THEN Max(amountOf(dTrades[i].costUSDC,
                                                  dTrades[i].investmentUSDC),
                                         amountOf(dTrades[i].returnUSDC, Undefined))
                                ELSE 0])

\* C23 as stated: the buckets come most recent day first, and every
\* permutation of the trades yields the same sequence of buckets.
C23_NewestFirstAnyOrder ==
    dStage = "rendered" =>
        /\ \A k \in 1..Len(dDaily) :
              \E d \in DaysOf(dTrades) :
                  /\ dDaily[k].date = dateLabel(DateValue(d) * MsPerSecond)
                  /\ Cardinality({e \in DaysOf(dTrades) : e >= d}) = k
        /\ \A perm \in Permutations(1..Len(dTrades)) :
              calculateDailyStats([i \in 1..Len(dTrades) |-> dTrades[perm[i]]])
                  = dDaily

\* C24 as stated: after every successful run the lines of the written
\* trades.jsonl are in newest-first order, whatever order the API returned
\* the trades in.
C24_TradesNewestFirst ==
    \A p \in Procs :
        pc[p] = "idle" /\ statusCode[p] = 200 /\ lastWriter["trades.jsonl"] = p =>
            /\ store["trades.jsonl"].kind = "json"
            /\ \A i \in 1..(Len(store["trades.jsonl"].body) - 1) :
                  store["trades.jsonl"].body[i].line
                      >= store["trades.jsonl"].body[i + 1].line

\* C25 as stated: the weekly summary counts the trades calculateStats takes
\* as completed (market closed, winning outcome index neither undefined nor
\* null), so the trades of the weekly rollups add up to stats.totalTrades,
\* and every rollup has wins + losses = trades.
C25_WeeklyCountsCompleted ==
    wStage = "weekly" =>
        /\ SumSeq([k \in 1..Len(wWeekly) |-> wWeekly[k].trades])
              = Cardinality({i \in 1..Len(wTrades) :
                    /\ wTrades[i].closed = "true"
                    /\ wTrades[i].winningOutcomeIndex.tag \notin {"undefined", "null"}})
        /\ SumSeq([k \in 1..Len(wWeekly) |-> wWeekly[k].trades]) = wStats.totalTrades
        /\ \A k \in 1..Len(wWeekly) :
              wWeekly[k].wins + wWeekly[k].losses = wWeekly[k].trades

\* C26 as stated: within one call of makeAuthenticatedRequest a 401 causes
\* exactly one forced re-authentication and exactly one retry; the call
\* sends at most two requests and re-authenticates at most once, fails when
\* the retry is not OK, and on another failure fails at once, without
\* re-authenticating and with the cached session unchanged.
C26_OneReauthOneRetry ==
    aCall.called =>
        /\ Len(aCall.sent) <= 2
        /\ aCall.reauths <= 1
        /\ aCall.first = 401 => aCall.reauths = 1 /\ Len(aCall.sent) = 2
        /\ Len(aCall.sent) = 2 /\ aCall.retry # 200 => aCall.threw
        /\ aCall.first \notin {200, 401} =>
              /\ aCall.threw
              /\ aCall.reauths = 0
              /\ Len(aCall.sent) = 1
              /\ aCall.after = aCall.before

\* C26, amended: a 401 causes exactly one forced re-authentication, and
\* exactly one retry if that re-authentication succeeds; if it fails the
\* call fails without a retry and leaves no cookie cached. The call sends
\* at most two requests and re-authenticates at most once, fails when the
\* retry is not OK, and on another failure fails at once, without
\* re-authenticating and with the cached session unchanged.
C26_RetryOnlyAfterReauth ==
    aCall.called =>
        /\ Len(aCall.sent) <= 2
        /\ aCall.reauths <= 1
        /\ aCall.first = 401 =>
              /\ aCall.reauths = 1
              /\ Len(aCall.sent) = 2 <=> aCall.after.cachedSessionCookie # 0
              /\ aCall.after.cachedSessionCookie = 0 =>
                    aCall.threw /\ Len(aCall.sent) = 1
        /\ Len(aCall.sent) = 2 /\ aCall.retry # 200 => aCall.threw
        /\ aCall.first \notin {200, 401} =>
              /\ aCall.threw
              /\ aCall.reauths = 0
              /\ Len(aCall.sent) = 1
              /\ aCall.after = aCall.before
        /\ aCall.first = 200 =>
              ~aCall.threw /\ aCall.reauths = 0 /\ Len(aCall.sent) = 1

\* A request was answered 401, the session was renewed and the retry, sent
\* with the new cookie, was answered OK.
C26_Witness ==
    /\ aCall.called
    /\ aCall.first = 401
    /\ Len(aCall.sent) = 2
    /\ aCall.sent[2] # aCall.sent[1]
    /\ aCall.sent[2] = cachedSessionCookie
    /\ ~aCall.threw

\* C27: ensureValidSession authenticates exactly when no cookie is cached or
\* the cached expiry is not more than 10 minutes after the call; when it
\* returns normally a cookie is cached whose expiry is more than 10 minutes
\* after the call (23 hours after it when it authenticated); when the
\* authentication fails no cookie is left cached as valid.
C27_SessionValidOnReturn ==
    aEnsure.called =>
        /\ aEnsure.authenticated <=>
              \/ aEnsure.before.cachedSessionCookie = 0
              \/ aEnsure.before.sessionExpiresAt <= aEnsure.at + 600000
        /\ ~aEnsure.threw =>
              /\ aEnsure.after.cachedSessionCookie # 0
              /\ aEnsure.after.sessionExpiresAt > aEnsure.at + 600000
              /\ aEnsure.authenticated =>
                    aEnsure.after.sessionExpiresAt
                        = aEnsure.at + 23 * 60 * 60 * 1000
        /\ aEnsure.threw =>
              ~(/\ aEnsure.after.cachedSessionCookie # 0
                /\ aEnsure.after.sessionExpiresAt > aEnsure.at + 600000)

\* A warm start found the cached session one millisecond short of the
\* buffer's edge and used it.
C27_Witness ==
    /\ aEnsure.called
    /\ aRuns = 2
    /\ ~aEnsure.authenticated
    /\ ~aEnsure.threw
    /\ aEnsure.before.sessionExpiresAt = aEnsure.at + 600000 + 1
    /\ aEnsure.after = aEnsure.before

\* C28 as stated: every request of makeAuthenticatedRequest is sent with a
\* session cookie that is not null.
C28_RequestsCarryCookie ==
    aCall.called => \A i \in 1..Len(aCall.sent) : aCall.sent[i] # 0

\* C29: the cached session cookie is never non-null while walletAddress is
\* null; so walletAddress is non-null whenever the handler calls
\* fetchTradedVolume, on cold and on warm starts.
C29_WalletKnownWithSession ==
    /\ cachedSessionCookie # 0 => walletAddress # "null"
    /\ aPc = "volume" => walletAddress # "null"

\* A warm start that used the cached session is about to call
\* fetchTradedVolume(walletAddress).
C29_Witness ==
    /\ aPc = "volume"
    /\ aRuns = 2
    /\ aEnsure.called /\ ~aEnsure.authenticated
    /\ cachedSessionCookie # 0
    /\ walletAddress = Address

\* C30 as stated: once runs have persisted a points history, the entry the
\* dashboard takes as the latest points, the last element of the array it
\* reads, is the entry of the greatest date of the persisted series.
C30_LatestIsNewest ==
    \A k \in {PointsKey, PointsHistKey} :
        Stored(k) # <<>> =>
            /\ latestPoints(store[PointsHistKey]).found
            /\ \A i \in 1..Len(Stored(k)) :
                  Stored(k)[i].date <= latestPoints(store[PointsHistKey]).latest.date

====
